---- MODULE Spec2Model ----
(***************************************************************************)
(* GoBlog: directory scanner (pkg/parser), record model (pkg/models),      *)
(* content assembler (pkg/generator), live server (pkg/server) and the     *)
(* snapshot cache (internal/server).                                       *)
(*                                                                         *)
(* Strings that the code inspects character by character (titles, slugs,   *)
(* tags, URL path segments) are sequences of one-character strings.        *)
(* Dates are naturals, 0 being the zero time.  A file's path is its        *)
(* position in the walk (fs.WalkDir visits in lexical order), 0 being the  *)
(* root ".".                                                               *)
(***************************************************************************)
EXTENDS Integers, Sequences, FiniteSets, TLC

\* ------------------------------------------------------------------ bounds
\* files in a scanned tree; UpdatePosts calls, GET requests and cache calls,
\* each made by a goroutine of its own
MaxFiles == 3
MaxCalls == 2
MaxRequests == 1
MaxCacheOps == 4

MaxWrites == 2

MaxInflight == 3

\* ----------------------------------------------------------- string helpers
Nil == "nil"

LowerLetters ==
    {"a","b","c","d","e","f","g","h","i","j","k","l","m",
     "n","o","p","q","r","s","t","u","v","w","x","y","z"}

Digits == {"0","1","2","3","4","5","6","7","8","9"}

\* the printable ASCII characters in the order of their codes, from 32 to 126,
\* without the grave accent (96), which a TLA+ string cannot hold
AsciiPrintable ==
    << " ", "!", "\"", "#", "$", "%", "&", "'", "(", ")", "*", "+", ",", "-", ".", "/",
       "0", "1", "2", "3", "4", "5", "6", "7", "8", "9", ":", ";", "<", "=", ">", "?",
       "@", "A", "B", "C", "D", "E", "F", "G", "H", "I", "J", "K", "L", "M", "N", "O",
       "P", "Q", "R", "S", "T", "U", "V", "W", "X", "Y", "Z", "[", "\\", "]", "^", "_",
       "a", "b", "c", "d", "e", "f", "g", "h", "i", "j", "k", "l", "m", "n", "o",
       "p", "q", "r", "s", "t", "u", "v", "w", "x", "y", "z", "{", "|", "}", "~" >>

\* the byte of a one-character string, by which Go orders strings
CharCode(c) ==
    LET i == CHOOSE k \in DOMAIN AsciiPrintable : AsciiPrintable[k] = c
    IN  IF i <= 64 THEN 31 + i ELSE 32 + i

\* strings.ToLower on one character
ToLowerChar(c) ==
    IF CharCode(c) \in 65..90 THEN AsciiPrintable[CharCode(c)] ELSE c

ToLower(s) == [i \in 1..Len(s) |-> ToLowerChar(s[i])]

\* strings.EqualFold
EqualFold(s, t) == ToLower(s) = ToLower(t)

\* strings.ReplaceAll(s, " ", "-") followed by strings.ReplaceAll(s, "_", "-")
ReplaceSeparators(s) ==
    [i \in 1..Len(s) |-> IF s[i] = " " \/ s[i] = "_" THEN "-" ELSE s[i]]

\* the strings.Builder loop keeping a-z, 0-9 and '-'
KeepSlugChars(s) ==
    SelectSeq(s, LAMBDA c : c \in LowerLetters \/ c \in Digits \/ c = "-")

\* strings.Contains(slug, "--")
ContainsDoubleHyphen(s) ==
    \E i \in 1..(Len(s) - 1) : s[i] = "-" /\ s[i + 1] = "-"

\* strings.ReplaceAll(slug, "--", "-"): non-overlapping, left to right
RECURSIVE ReplaceDoubleHyphen(_)
ReplaceDoubleHyphen(s) ==
    IF Len(s) < 2 THEN s
    ELSE IF s[1] = "-" /\ s[2] = "-"
         THEN <<"-">> \o ReplaceDoubleHyphen(SubSeq(s, 3, Len(s)))
         ELSE <<s[1]>> \o ReplaceDoubleHyphen(Tail(s))

\* for strings.Contains(slug, "--") { slug = strings.ReplaceAll(...) }
RECURSIVE CollapseHyphens(_)
CollapseHyphens(s) ==
    IF ContainsDoubleHyphen(s) THEN CollapseHyphens(ReplaceDoubleHyphen(s)) ELSE s

\* strings.Trim(slug, "-")
RECURSIVE TrimHyphens(_)
TrimHyphens(s) ==
    IF s = <<>> THEN s
    ELSE IF Head(s) = "-" THEN TrimHyphens(Tail(s))
    ELSE IF s[Len(s)] = "-" THEN TrimHyphens(SubSeq(s, 1, Len(s) - 1))
    ELSE s

slugify(s) ==
    TrimHyphens(CollapseHyphens(KeepSlugChars(ReplaceSeparators(ToLower(s)))))

\* -------------------------------------------------------------- pkg/models
\* variant of Validate: the description is not checked
ValidateNoDescription(p) ==
    IF p.Title = <<>> THEN "title"
    ELSE IF p.Date = 0 THEN "date"
    ELSE ""

\* Post.Validate: "" when valid, otherwise the missing field
Validate(p) ==
    IF p.Title = <<>> THEN "title"
    ELSE IF p.Date = 0 THEN "date"
    ELSE IF p.Description = "" THEN "description"
    ELSE ""

\* Post.GenerateSlug; filepath.Base of a file at walk position i, minus its
\* extension, is the name "f<i>", whose slug is the same characters
FileStem(path) == <<"f", AsciiPrintable[48 + path - 31]>>

GenerateSlug(p) ==
    IF p.Slug # <<>> THEN p
    ELSE IF p.Title # <<>> THEN [p EXCEPT !.Slug = slugify(p.Title)]
    ELSE IF p.SourcePath # 0 THEN [p EXCEPT !.Slug = slugify(FileStem(p.SourcePath))]
    ELSE p

HasTag(p, tag) == \E i \in 1..Len(p.Tags) : EqualFold(p.Tags[i], tag)

FilterByTag(pl, tag) == SelectSeq(pl, LAMBDA p : HasTag(p, tag))

\* variant of Swap: pl[i] = pl[j] without the assignment back
SwapOverwrites(pl, i, j) == [pl EXCEPT ![i] = pl[j]]

Swap(pl, i, j) == [pl EXCEPT ![i] = pl[j], ![j] = pl[i]]

\* PostList.SortByDate: for i { for j := i+1 { if pl[i].Date.Before(pl[j].Date) swap } }
RECURSIVE SortInner(_, _, _)
SortInner(pl, i, j) ==
    IF j > Len(pl) THEN pl
    ELSE SortInner(IF pl[i].Date < pl[j].Date THEN Swap(pl, i, j) ELSE pl, i, j + 1)

RECURSIVE SortOuter(_, _)
SortOuter(pl, i) ==
    IF i > Len(pl) THEN pl ELSE SortOuter(SortInner(pl, i, i + 1), i + 1)

SortByDate(pl) == SortOuter(pl, 1)

\* -------------------------------------------------------------- pkg/parser
\* A source tree: rootErr says the root cannot be read; entries are what the
\* walk visits below the root, in order.  An entry is a directory
\* (kind "dir"), a directory whose ReadDir fails (kind "baddir") or a file
\* (kind "file") with an extension, a decode fault and frontmatter fields.
ExtMd == <<".", "m", "d">>

ExtMarkdown == <<".", "m", "a", "r", "k", "d", "o", "w", "n">>

ExtUpperMd == <<".", "M", "D">>

ExtTxt == <<".", "t", "x", "t">>

MdExts == {ExtMd, ExtMarkdown}

\* strings.ToLower(filepath.Ext(path))
LowerExt(ext) == ToLower(ext)

IsContentFile(e) == e.kind = "file" /\ LowerExt(e.ext) \in MdExts

\* Parser.ParseFile: [err |-> "", post |-> Post] or [err |-> cause]; the cause
\* of a validation failure is the name of the missing field
ParseFile(e, path) ==
    IF e.fault = "read" THEN [err |-> "failed to read file"]
    ELSE IF e.fault = "convert" THEN [err |-> "failed to render markdown"]
    ELSE IF e.fault = "nofrontmatter" THEN [err |-> "no frontmatter found in file"]
    ELSE IF e.fault = "decode" THEN [err |-> "failed to parse frontmatter"]
    ELSE LET post == [Title |-> e.title, Date |-> e.date,
                      Description |-> e.desc, Tags |-> e.tags,
                      Slug |-> <<>>, Content |-> [html |-> 0], SourcePath |-> path]
             missing == Validate(post)
         IN  IF missing # ""
             THEN [err |-> missing]
             ELSE [err |-> "",
                   post |-> GenerateSlug([post EXCEPT !.Content = [html |-> e.body]])]

\* variant of WalkFn: a failing file discards the posts collected so far
WalkFnDropsPosts(acc, e, path) ==
    IF e.kind = "baddir"
    THEN [acc EXCEPT !.errs = Append(@, [Path |-> path, Err |-> "walk"])]
    ELSE IF e.kind = "dir" THEN acc
    ELSE IF ~IsContentFile(e) THEN acc
    ELSE LET r == ParseFile(e, path)
         IN  IF r.err # ""
             THEN [posts |-> <<>>,
                   errs |-> Append(acc.errs, [Path |-> path, Err |-> r.err])]
             ELSE [acc EXCEPT !.posts = Append(@, r.post)]

\* the WalkDirFunc of ParseDirectory applied to one visited entry
WalkFn(acc, e, path) ==
    IF e.kind = "baddir"
    THEN [acc EXCEPT !.errs = Append(@, [Path |-> path, Err |-> "walk"])]
    ELSE IF e.kind = "dir" THEN acc
    ELSE IF ~IsContentFile(e) THEN acc
    ELSE LET r == ParseFile(e, path)
         IN  IF r.err # ""
             THEN [acc EXCEPT !.errs = Append(@, [Path |-> path, Err |-> r.err])]
             ELSE [acc EXCEPT !.posts = Append(@, r.post)]

EmptyAcc == [posts |-> <<>>, errs |-> <<>>]

\* the visit of the root "."
WalkRoot(t) ==
    IF t.rootErr
    THEN [EmptyAcc EXCEPT !.errs = <<[Path |-> 0, Err |-> "walk"]>>]
    ELSE EmptyAcc

\* what follows fs.WalkDir: the sort and the choice of the returned error
FinishParse(acc) ==
    [posts |-> SortByDate(acc.posts),
     err   |-> IF Len(acc.errs) > 0 THEN "ParseErrors" ELSE Nil,
     errs  |-> acc.errs]

RECURSIVE WalkFrom(_, _, _)
WalkFrom(t, acc, i) ==
    IF t.rootErr \/ i > Len(t.entries) THEN acc
    ELSE WalkFrom(t, WalkFn(acc, t.entries[i], i), i + 1)

ParseDirectory(t) == FinishParse(WalkFrom(t, WalkRoot(t), 1))

\* ----------------------------------------------------------- pkg/generator
\* Go's < on strings: byte by byte
RECURSIVE StrLess(_, _)
StrLess(a, b) ==
    IF b = <<>> THEN FALSE
    ELSE IF a = <<>> THEN TRUE
    ELSE IF CharCode(Head(a)) # CharCode(Head(b)) THEN CharCode(Head(a)) < CharCode(Head(b))
    ELSE StrLess(Tail(a), Tail(b))

Range(f) == {f[i] : i \in DOMAIN f}

\* all orders in which a map's keys can be iterated
Perms(S) == {q \in [1..Cardinality(S) -> S] : Range(q) = S}

\* a nil or empty []byte
NoBytes == [html |-> 0]

NewEmptyGeneratedBlog ==
    [Posts |-> <<>>, Tags |-> <<>>, Index |-> NoBytes, TagsIndex |-> NoBytes]

\* the map after m[k] = v for each element of kvs in order (a later
\* assignment to the same key replaces the earlier one)
MapOf(kvs) ==
    [k \in {kvs[i].k : i \in 1..Len(kvs)} |->
        LET last == CHOOSE i \in 1..Len(kvs) :
                        /\ kvs[i].k = k
                        /\ \A j \in (i + 1)..Len(kvs) : kvs[j].k # k
        IN  kvs[last].v]

\* the option function of WithBlogRoot assigns to its own parameter
\* (v = &x), so the value it is applied to is left as it was
WithBlogRoot(v, root) == v

\* variant of assembleRawBlog: the newest post is also made the index page
\* Generator.assembleRawBlog
assembleRawBlog(posts) ==
    [NewEmptyGeneratedBlog EXCEPT
        !.Posts = MapOf([i \in 1..Len(posts) |->
                            [k |-> posts[i].Slug, v |-> posts[i].Content]])]

\* TemplateRenderer.RenderPost / RenderIndex / RenderTag / RenderTagsIndex:
\* the bytes are a function of the template and of the page data
RenderPost(post, site) ==
    [tmpl |-> "pages/post.tmpl", slug |-> post.Slug, title |-> post.Title,
     content |-> post.Content, root |-> site]

RenderIndex(posts, site) ==
    [tmpl |-> "pages/index.tmpl",
     posts |-> [i \in 1..Len(posts) |-> posts[i].Slug],
     total |-> Len(posts), root |-> site]

RenderTag(tag, tagPosts, site) ==
    [tmpl |-> "pages/tag.tmpl", tag |-> tag,
     posts |-> [i \in 1..Len(tagPosts) |-> tagPosts[i].Slug],
     count |-> Len(tagPosts), root |-> site]

RenderTagsIndex(tagInfos, site) ==
    [tmpl |-> "pages/tags.tmpl", tags |-> tagInfos,
     total |-> Len(tagInfos), root |-> site]

\* PostList.GetAllTags: the keys of tagSet, in every order the map
\* iteration can produce
TagSet(pl) == UNION {Range(pl[i].Tags) : i \in 1..Len(pl)}

GetAllTags(pl) == Perms(TagSet(pl))

\* sort.Slice(tagInfos, lower(name_i) < lower(name_j)): every arrangement of
\* the infos that is ordered by the comparison
SortedTagInfos(infos) ==
    {q \in Perms(Range(infos)) :
        \A i \in 1..(Len(q) - 1) : ~StrLess(ToLower(q[i + 1].Name), ToLower(q[i].Name))}

\* a renderer: isNil, or the set of templates whose execution fails
NoRenderer == [isNil |-> TRUE, fails |-> {}]

GoodRenderer == [isNil |-> FALSE, fails |-> {}]

\* Generator.assembleBlogWithTemplates: the set of its possible results
assembleBlogWithTemplates(g, posts0) ==
    IF g.renderer.isNil THEN {[err |-> "template renderer is nil"]}
    ELSE
    LET posts == SortByDate(posts0)
        fails == g.renderer.fails
    IN  IF Len(posts) > 0 /\ "pages/post.tmpl" \in fails
        THEN {[err |-> "failed to render post"]}
        ELSE IF "pages/index.tmpl" \in fails THEN {[err |-> "failed to render index"]}
        ELSE IF TagSet(posts) # {} /\ "pages/tag.tmpl" \in fails
        THEN {[err |-> "failed to render tag page"]}
        ELSE IF "pages/tags.tmpl" \in fails THEN {[err |-> "failed to render tags index"]}
        ELSE
        {[err |-> "",
          blog |->
            [Posts |-> MapOf([i \in 1..Len(posts) |->
                                [k |-> posts[i].Slug,
                                 v |-> RenderPost(posts[i], g.BlogRoot)]]),
             Index |-> RenderIndex(posts, g.BlogRoot),
             Tags  |-> MapOf([i \in 1..Len(allTags) |->
                                [k |-> allTags[i],
                                 v |-> RenderTag(allTags[i],
                                                 FilterByTag(posts, allTags[i]),
                                                 g.BlogRoot)]]),
             TagsIndex |-> RenderTagsIndex(sorted, g.BlogRoot)]] :
            <<allTags, sorted>> \in
                UNION {{<<at, st>> :
                          st \in SortedTagInfos(
                                   [i \in 1..Len(at) |->
                                      [Name |-> at[i],
                                       PostCount |-> Len(FilterByTag(posts, at[i]))]])} :
                       at \in GetAllTags(posts)}}

\* generator.New: a Generator's configuration
Slash == <<"/">>

NewGenerator(renderer, rawOutput, blogRootOpt) ==
    [renderer |-> renderer, RawOutput |-> rawOutput,
     BlogRoot |-> WithBlogRoot(<<Slash>>, blogRootOpt)]

\* variant of GenerateFrom: the scan's error is replaced by one of Generate's own
\* Generator.Generate once ParseDirectory has returned pd: the set of
\* possible results (a result without a blog field is a nil bundle)
GenerateFrom(g, pd) ==
    IF pd.err # Nil THEN {[err |-> pd.err]}
    ELSE IF g.RawOutput THEN {[err |-> "", blog |-> assembleRawBlog(pd.posts)]}
    ELSE assembleBlogWithTemplates(g, pd.posts)

\* Generator.Generate on the tree its PostsDir held when it was read
Generate(g, t) == GenerateFrom(g, ParseDirectory(t))

\* ------------------------------------------------------ pkg/server/handler
SegPosts == <<"p","o","s","t","s">>

SegTags == <<"t","a","g","s">>

\* strings.Trim(root, "/") on a root given as "/" tokens and segments
RECURSIVE TrimSlashes(_)
TrimSlashes(r) ==
    IF r = <<>> THEN r
    ELSE IF Head(r) = Slash THEN TrimSlashes(Tail(r))
    ELSE IF r[Len(r)] = Slash THEN TrimSlashes(SubSeq(r, 1, Len(r) - 1))
    ELSE r

Lit(s) == [kind |-> "lit", s |-> s]

Wild(name) == [kind |-> "wild", s |-> name]

Multi == [kind |-> "multi", s |-> ""]

\* Handler: the configured root starts as "/", the option is applied, and the
\* trimmed root's segments prefix every pattern
HandlerRoot(rootOpt) ==
    LET trimmed == TrimSlashes(WithBlogRoot(<<Slash>>, rootOpt))
        segs == SelectSeq(trimmed, LAMBDA x : x # Slash)
    IN  [i \in 1..Len(segs) |-> Lit(segs[i])]

\* a generateHandler that registers the landing page for the root path only
generateHandlerExactRoot(root) ==
    << [pat |-> root \o <<Lit(SegPosts)>>,                   h |-> "handleIndex"],
       [pat |-> root \o <<Lit(Slash)>>,                      h |-> "handleIndex"],
       [pat |-> root \o <<Lit(SegPosts), Wild("postName")>>, h |-> "handlePost"],
       [pat |-> root \o <<Lit(SegTags)>>,                    h |-> "handleTagsIndex"],
       [pat |-> root \o <<Lit(SegTags), Wild("postName")>>,  h |-> "handlePost"] >>

\* generateHandler: the patterns registered on the mux, all for GET
generateHandler(root) ==
    << [pat |-> root \o <<Lit(SegPosts)>>,                   h |-> "handleIndex"],
       [pat |-> root \o <<Multi>>,                           h |-> "handleIndex"],
       [pat |-> root \o <<Lit(SegPosts), Wild("postName")>>, h |-> "handlePost"],
       [pat |-> root \o <<Lit(SegTags)>>,                    h |-> "handleTagsIndex"],
       [pat |-> root \o <<Lit(SegTags), Wild("postName")>>,  h |-> "handlePost"] >>

Handler(blog, rootOpt) ==
    [isNil |-> FALSE, blog |-> blog, routes |-> generateHandler(HandlerRoot(rootOpt))]

NoHandler == [isNil |-> TRUE]

\* http.ServeMux matching of a cleaned path, given as its segments with a
\* trailing slash as the segment "/": a literal is tried first, then a
\* single wildcard (never on "/"), then a pattern ending in "/" here.
\* P is the set of routes that match the path before position d.
RECURSIVE MatchPath(_, _, _, _)
MatchPath(routes, P, path, d) ==
    IF d > Len(path)
    THEN IF \E i \in P : Len(routes[i].pat) = d - 1
         THEN CHOOSE i \in P : Len(routes[i].pat) = d - 1
         ELSE 0
    ELSE
    LET seg  == path[d]
        lits == {i \in P : /\ Len(routes[i].pat) >= d
                           /\ routes[i].pat[d].kind = "lit"
                           /\ routes[i].pat[d].s = seg}
        wild == {i \in P : /\ Len(routes[i].pat) >= d
                           /\ routes[i].pat[d].kind = "wild"}
        mult == {i \in P : /\ Len(routes[i].pat) = d
                           /\ routes[i].pat[d].kind = "multi"}
        viaLit  == IF lits = {} THEN 0 ELSE MatchPath(routes, lits, path, d + 1)
        viaWild == IF seg = Slash \/ wild = {} THEN 0
                   ELSE MatchPath(routes, wild, path, d + 1)
    IN  IF viaLit # 0 THEN viaLit
        ELSE IF viaWild # 0 THEN viaWild
        ELSE IF mult # {} THEN CHOOSE i \in mult : TRUE
        ELSE 0

\* Request.PathValue(name): the segment matched by the wildcard of that name,
\* empty when the matched pattern has no such wildcard
PathValue(route, path, name) ==
    IF \E d \in 1..Len(route.pat) : route.pat[d] = Wild(name)
    THEN path[CHOOSE d \in 1..Len(route.pat) : route.pat[d] = Wild(name)]
    ELSE <<>>

Text(s) == [text |-> s]

handleIndex(blog) == [status |-> 200, body |-> blog.Index]

handleTagsIndex(blog) == [status |-> 200, body |-> blog.TagsIndex]

\* variant of handlePost: the name is looked up among the tags
handlePostInTags(blog, route, path) ==
    LET postName == PathValue(route, path, "postName")
    IN  IF postName \in DOMAIN blog.Tags
        THEN [status |-> 200, body |-> blog.Tags[postName]]
        ELSE [status |-> 404, body |-> Text("")]

handlePost(blog, route, path) ==
    LET postName == PathValue(route, path, "postName")
    IN  IF postName \in DOMAIN blog.Posts
        THEN [status |-> 200, body |-> blog.Posts[postName]]
        ELSE [status |-> 404, body |-> Text("")]

\* defined by handler.go, registered on no route
handleTag(blog, route, path) ==
    LET postName == PathValue(route, path, "tagName")
    IN  IF postName \in DOMAIN blog.Tags
        THEN [status |-> 200, body |-> blog.Tags[postName]]
        ELSE [status |-> 404, body |-> Text("")]

\* the mux of a handler answering GET path
MuxServeHTTP(h, path) ==
    LET idx == MatchPath(h.routes, DOMAIN h.routes, path, 1)
    IN  IF idx = 0
        THEN IF MatchPath(h.routes, DOMAIN h.routes, path \o <<Slash>>, 1) # 0
             THEN [status |-> 301, body |-> Text("Moved Permanently")]
             ELSE [status |-> 404, body |-> Text("404 page not found")]
        ELSE LET route == h.routes[idx]
             IN  CASE route.h = "handleIndex"     -> handleIndex(h.blog)
                   [] route.h = "handleTagsIndex" -> handleTagsIndex(h.blog)
                   [] route.h = "handlePost"      -> handlePost(h.blog, route, path)
                   [] OTHER                       -> handleTag(h.blog, route, path)

\* Server.ServeHTTP once the handler cell has been loaded into h
ServeHTTP(h, path) ==
    IF h.isNil
    THEN [status |-> 503, body |-> Text("Service Unavailable")]
    ELSE MuxServeHTTP(h, path)

\* ------------------------------------------------------------------ inputs
ChA == <<"a">>

ChT == <<"t">>

ChU == <<"u">>

ChX == <<"x">>

SegBlog == <<"b","l","o","g">>

File(ext, fault, title, date, desc, tags, body) ==
    [kind |-> "file", ext |-> ext, fault |-> fault, title |-> title,
     date |-> date, desc |-> desc, tags |-> tags, body |-> body]

Tree(entries) == [rootErr |-> FALSE, entries |-> entries]

\* the source trees handed to New and UpdatePosts: two that generate (with
\* different posts and tags) and one holding a post without a title
FSTable ==
    << Tree(<< File(ExtMd, "none", ChA, 2, "d", <<ChT>>, 1) >>),
       Tree(<< File(ExtMd, "none", ChA, 2, "d", <<ChT>>, 2),
               File(ExtMd, "none", ChU, 3, "d", <<ChU>>, 3) >>),
       Tree(<< File(ExtMd, "none", ChA, 2, "d", <<ChT>>, 1),
               File(ExtMd, "none", <<>>, 2, "d", <<>>, 4) >>) >>

FSIds == DOMAIN FSTable

\* the configurations New is given: the default, a blog root option, raw output
ServerConfigs ==
    { [rootOpt |-> <<Slash>>, raw |-> FALSE],
      [rootOpt |-> <<Slash, SegBlog, Slash>>, raw |-> FALSE],
      [rootOpt |-> <<Slash>>, raw |-> TRUE] }

\* the paths clients GET
Paths ==
    { <<Slash>>, <<SegPosts>>, <<SegPosts, ChA>>, <<SegPosts, ChU>>,
      <<SegTags>>, <<SegTags, ChT>>, <<SegTags, ChU>>, <<SegTags, ChA>>,
      <<ChX>>, <<SegPosts, ChA, ChU>> }

\* Generate of every generator New can build on every tree of the table,
\* evaluated once
Generators == {NewGenerator(GoodRenderer, c.raw, c.rootOpt) : c \in ServerConfigs}

GenerateOn == [g \in Generators, f \in FSIds |-> Generate(g, FSTable[f])]

\* The handler cell and the local h of ServeHTTP hold references: 0 is nil,
\* any other value points at one of the immutable handlers that can exist
\* (one for each bundle Generate can return, and for the empty bundle).
Bundles ==
    {res.blog : res \in {x \in UNION {GenerateOn[g, f] : g \in Generators, f \in FSIds} :
                            x.err = ""}}
        \cup {NewEmptyGeneratedBlog}

Handlers == {Handler(b, c.rootOpt) : b \in Bundles, c \in ServerConfigs}

HandlerTable == CHOOSE q \in Perms(Handlers) : TRUE

Ref(h) == CHOOSE i \in DOMAIN HandlerTable : HandlerTable[i] = h

Deref(r) == IF r = 0 THEN NoHandler ELSE HandlerTable[r]

\* the goroutines calling UpdatePosts, numbered in the order in which they
\* start
Updaters == 1..MaxCalls

\* the connection whose requests ServeHTTP answers, one after the other
\* (ServeHTTP writes nothing that another ServeHTTP reads)
Clients == {1}

Started(pc, i) == IF i = 1 THEN TRUE ELSE pc[i - 1] # "idle"

\* ------------------------------------------------------------------- state
VARIABLES
    cfg,          \* the ServerConfig New was given
    gen,          \* Server.generator (without PostsDir)
    postsDir,     \* Server.postsDir
    genPostsDir,  \* Server.generator.PostsDir
    mu,           \* Server.mu: 0 or the updater holding it
    handler,      \* Server.handler, the atomic cell
    newpc,        \* New: "refresh", then "ok" or "failed"
    upc, uarg, usrc, uret,           \* UpdatePosts goroutines
    rpc, rpath, rh, rresp,           \* ServeHTTP, the request being served
    rcount,       \* the requests ServeHTTP was called for
    installed,    \* history: a handler has been stored into the cell
    rseen,        \* history: the cell's content and installed, when the
                  \* request loaded the cell
    cblog,        \* InMemoryCache.blog: 0 (nil) or a *GeneratedBlog
    crw,          \* InMemoryCache.mu: the writer holding it (or 0), the readers
    cpc, carg, cret,                 \* goroutines calling Get, Set, Clear
    clog,         \* history: the critical sections, in the order they ran
    tree,         \* ParseDirectory: the source tree being scanned
    sidx,         \* ParseDirectory: the next entry the walk visits (0: the root)
    sacc,         \* ParseDirectory: posts and parseErrors so far
    spc,          \* ParseDirectory: "walk", "done" ("off": no scan)
    sres,         \* ParseDirectory: what it returned
    ctxDone,      \* Generate: the context its caller gave it is cancelled
    cancelAt,     \* history: the walk position when the context was cancelled
    ag,           \* Generate: the Generator it is called on
    apc,          \* Generate: "off", "parse", "posts", "tags", "done"
    aposts,       \* assembleBlogWithTemplates: posts, once sorted
    ai,           \* assembleBlogWithTemplates: the index of the running loop
    ablog,        \* assembleBlogWithTemplates: blog, as filled so far
    atags,        \* assembleBlogWithTemplates: allTags
    acalls,       \* history: the templates the renderer was called for
    ares,         \* Generate: what it returned
    kpc,          \* Run: "off", "start", "wait", "returned"
    kctx,         \* Run: the context, "live", "cancelled" or "interrupted"
    lpc,          \* Run: the goroutine calling ListenAndServe
    hpc,          \* Run: the goroutine calling Shutdown
    conns,        \* Run: the connections waiting for a request
    inflight,     \* Run: the requests a handler is answering
    lnerr,        \* Run: closing the listener failed in Shutdown
    kerr,         \* Run: the lines written to os.Stderr
    kret,         \* Run: what it returned
    wd,           \* DirectoryWriter: its RawOutput option
    wblog,        \* HandleGeneratedBlog: the blog given to it
    wpc,          \* HandleGeneratedBlog: the statement it is at
    wtodo,        \* writeMapToFiles: the map keys still to be written
    wfs,          \* the output directory: its directories and files
    wret,         \* HandleGeneratedBlog: what it returned
    wcount,       \* history: the calls of HandleGeneratedBlog that returned
    wfirst        \* history: the output directory after the first call

serverVars == <<cfg, gen, postsDir, genPostsDir, mu, handler, newpc,
                upc, uarg, usrc, uret,
                rpc, rpath, rh, rresp, rcount, installed, rseen>>

cacheVars == <<cblog, crw, cpc, carg, cret, clog>>

scanVars == <<tree, sidx, sacc, spc, sres, ctxDone, cancelAt>>

asmVars == <<ag, apc, aposts, ai, ablog, atags, acalls, ares>>

runVars == <<kpc, kctx, lpc, hpc, conns, inflight, lnerr, kerr, kret>>

outVars == <<wd, wblog, wpc, wtodo, wfs, wret, wcount, wfirst>>

vars == <<serverVars, cacheVars, scanVars, asmVars, runVars, outVars>>

\* ------------------------------------------------------- pkg/server/server
\* variants of refreshStore: a handler of an empty bundle is stored when
\* Generate failed; the cell is emptied when Generate failed
refreshStoreEmpty(cur, res, rootOpt) ==
    IF res.err # "" THEN Ref(Handler(NewEmptyGeneratedBlog, rootOpt))
    ELSE Ref(Handler(res.blog, rootOpt))

refreshStoreReset(cur, res, rootOpt) ==
    IF res.err # "" THEN 0 ELSE Ref(Handler(res.blog, rootOpt))

\* refreshHandler after Generate has returned res: the new content of the cell
refreshStore(cur, res, rootOpt) ==
    IF res.err # "" THEN cur ELSE Ref(Handler(res.blog, rootOpt))

\* variant of delegate: the cell is read again at the delegation
delegateReload(c) == handler

\* the handler ServeHTTP delegates to: the local h it loaded
delegate(c) == rh[c]

NoResponse == [status |-> 0, body |-> Text("")]

NotSeen == [cell |-> 0, installed |-> FALSE]

InitServer ==
    /\ cfg \in ServerConfigs
    /\ gen = NewGenerator(GoodRenderer, cfg.raw, cfg.rootOpt)
    /\ postsDir \in FSIds
    /\ genPostsDir = postsDir
    /\ mu = 0
    /\ handler = 0
    /\ newpc = "refresh"
    /\ upc = [u \in Updaters |-> "idle"]
    /\ uarg = [u \in Updaters |-> 0]
    /\ usrc = [u \in Updaters |-> 0]
    /\ uret = [u \in Updaters |-> Nil]
    /\ rpc = [c \in Clients |-> "idle"]
    /\ rpath = [c \in Clients |-> <<>>]
    /\ rh = [c \in Clients |-> 0]
    /\ rresp = [c \in Clients |-> NoResponse]
    /\ rcount = 0
    /\ installed = FALSE
    /\ rseen = [c \in Clients |-> NotSeen]

\* New, lines 91-97: the first refreshHandler; its failure fails New
NewRefresh ==
    /\ newpc = "refresh"
    /\ \E res \in GenerateOn[gen, genPostsDir] :
        /\ handler' = refreshStore(handler, res, cfg.rootOpt)
        /\ newpc' = IF res.err # "" THEN "failed" ELSE "ok"
        /\ installed' = (installed \/ res.err = "")
    /\ UNCHANGED <<asmVars, runVars, outVars, cacheVars, scanVars, rcount, cfg, gen, postsDir, genPostsDir, mu, upc, uarg, usrc, uret, rpc, rpath, rh, rresp, rseen>>

\* UpdatePosts(posts): s.mu.Lock()
UpdateLock(u) ==
    /\ newpc = "ok"
    /\ upc[u] = "idle"
    /\ Started(upc, u)
    /\ mu = 0
    /\ \E f \in FSIds : uarg' = [uarg EXCEPT ![u] = f]
    /\ mu' = u
    /\ upc' = [upc EXCEPT ![u] = "locked"]
    /\ UNCHANGED <<asmVars, runVars, outVars, cacheVars, scanVars, rcount, cfg, gen, postsDir, genPostsDir, handler, newpc, usrc, uret, rpc, rpath, rh, rresp, installed, rseen>>

\* UpdatePosts: s.postsDir = posts; s.generator.PostsDir = posts; s.mu.Unlock()
UpdateSetDirs(u) ==
    /\ upc[u] = "locked"
    /\ mu = u
    /\ postsDir' = uarg[u]
    /\ genPostsDir' = uarg[u]
    /\ mu' = 0
    /\ upc' = [upc EXCEPT ![u] = "refresh"]
    /\ UNCHANGED <<asmVars, runVars, outVars, cacheVars, scanVars, rcount, cfg, gen, handler, newpc, uarg, usrc, uret,
                   rpc, rpath, rh, rresp, installed, rseen>>

\* refreshHandler: Generate is entered and reads g.PostsDir, outside s.mu
GenerateBegin(u) ==
    /\ upc[u] = "refresh"
    /\ usrc' = [usrc EXCEPT ![u] = genPostsDir]
    /\ upc' = [upc EXCEPT ![u] = "generating"]
    /\ UNCHANGED <<asmVars, runVars, outVars, cacheVars, scanVars, rcount, cfg, gen, postsDir, genPostsDir, mu, handler, newpc, uarg, uret, rpc, rpath, rh, rresp, installed, rseen>>

\* refreshHandler: Generate returns; on an error refreshHandler returns it,
\* otherwise the new handler is built and stored; UpdatePosts returns to its
\* caller
GenerateEnd(u) ==
    /\ upc[u] = "generating"
    /\ \E res \in GenerateOn[gen, usrc[u]] :
        /\ handler' = refreshStore(handler, res, cfg.rootOpt)
        /\ uret' = [uret EXCEPT ![u] =
                        IF res.err # "" THEN "failed to refresh handler" ELSE Nil]
        /\ installed' = (installed \/ res.err = "")
    /\ upc' = [upc EXCEPT ![u] = "done"]
    /\ usrc' = [usrc EXCEPT ![u] = 0]
    /\ UNCHANGED <<asmVars, runVars, outVars, cacheVars, scanVars, rcount, cfg, gen, postsDir, genPostsDir, mu, newpc, uarg,
                   rpc, rpath, rh, rresp, rseen>>

\* ServeHTTP: h := s.handler.Load()
ServeLoad(c) ==
    /\ newpc = "ok"
    /\ rpc[c] \in {"idle", "done"}
    /\ rcount < MaxRequests
    /\ rcount' = rcount + 1
    /\ rh' = [rh EXCEPT ![c] = handler]
    /\ rseen' = [rseen EXCEPT ![c] = [cell |-> handler, installed |-> installed]]
    /\ rpath' = [rpath EXCEPT ![c] = <<>>]
    /\ rresp' = [rresp EXCEPT ![c] = NoResponse]
    /\ rpc' = [rpc EXCEPT ![c] = "loaded"]
    /\ UNCHANGED <<asmVars, runVars, outVars, cacheVars, scanVars, cfg, gen, postsDir, genPostsDir, mu, handler, newpc, upc, uarg,
                   usrc, uret, installed>>

\* ServeHTTP: the nil check and the delegation, answering the request's path
\* (the path is the request's own and is first looked at here)
ServeRespond(c) ==
    /\ rpc[c] = "loaded"
    /\ \E p \in Paths :
        /\ rpath' = [rpath EXCEPT ![c] = p]
        /\ rresp' = [rresp EXCEPT ![c] = ServeHTTP(Deref(delegate(c)), p)]
    /\ rpc' = [rpc EXCEPT ![c] = "done"]
    /\ UNCHANGED <<asmVars, runVars, outVars, cacheVars, scanVars, rcount, cfg, gen, postsDir, genPostsDir, mu, handler, newpc, upc, uarg,
                   usrc, uret, rh, installed, rseen>>

NextServer ==
    \/ NewRefresh
    \/ \E u \in Updaters : UpdateLock(u)
    \/ \E u \in Updaters : UpdateSetDirs(u)
    \/ \E u \in Updaters : GenerateBegin(u)
    \/ \E u \in Updaters : GenerateEnd(u)
    \/ \E c \in Clients : ServeLoad(c)
    \/ \E c \in Clients : ServeRespond(c)

\* ------------------------------------------- internal/server/inMemoryCache
CacheProcs == 1..MaxCacheOps

\* the bundles handed to Set, as pointers
CacheBlogs == {1, 2}

\* variant of SetLockMode: Set takes the read lock
SetLockModeShared == "R"

\* the lock each method takes on m.mu
GetLockMode == "R"

SetLockMode == "W"

ClearLockMode == "W"

\* sync.RWMutex: Lock needs no holder at all, RLock no writer
Acquirable(rw, mode) ==
    IF mode = "W" THEN rw.w = 0 /\ rw.r = {} ELSE rw.w = 0

Acquire(rw, mode, p) ==
    IF mode = "W" THEN [rw EXCEPT !.w = p] ELSE [rw EXCEPT !.r = @ \cup {p}]

Release(rw, p) ==
    [w |-> IF rw.w = p THEN 0 ELSE rw.w, r |-> rw.r \ {p}]

\* NewInMemoryCache
InitCache ==
    /\ cblog = 0
    /\ crw = [w |-> 0, r |-> {}]
    /\ cpc = [p \in CacheProcs |-> "idle"]
    /\ carg = [p \in CacheProcs |-> 0]
    /\ cret = [p \in CacheProcs |-> 0]
    /\ clog = <<>>

\* Get: m.mu.RLock()
GetLock(p) ==
    /\ cpc[p] = "idle"
    /\ Started(cpc, p)
    /\ Acquirable(crw, GetLockMode)
    /\ crw' = Acquire(crw, GetLockMode, p)
    /\ cpc' = [cpc EXCEPT ![p] = "get"]
    /\ UNCHANGED <<asmVars, runVars, outVars, serverVars, scanVars, cblog, carg, cret, clog>>

\* Get: return m.blog, with the deferred RUnlock
GetReturn(p) ==
    /\ cpc[p] = "get"
    /\ cret' = [cret EXCEPT ![p] = cblog]
    /\ crw' = Release(crw, p)
    /\ cpc' = [cpc EXCEPT ![p] = "done"]
    /\ clog' = Append(clog, [op |-> "get", v |-> cblog])
    /\ UNCHANGED <<asmVars, runVars, outVars, serverVars, scanVars, cblog, carg>>

\* Set(blog): m.mu.Lock()
SetLock(p) ==
    /\ cpc[p] = "idle"
    /\ Started(cpc, p)
    /\ Acquirable(crw, SetLockMode)
    /\ crw' = Acquire(crw, SetLockMode, p)
    /\ \E b \in CacheBlogs : carg' = [carg EXCEPT ![p] = b]
    /\ cpc' = [cpc EXCEPT ![p] = "set"]
    /\ UNCHANGED <<asmVars, runVars, outVars, serverVars, scanVars, cblog, cret, clog>>

\* Set: m.blog = blog, with the deferred Unlock
SetStore(p) ==
    /\ cpc[p] = "set"
    /\ cblog' = carg[p]
    /\ crw' = Release(crw, p)
    /\ cpc' = [cpc EXCEPT ![p] = "done"]
    /\ clog' = Append(clog, [op |-> "set", v |-> carg[p]])
    /\ UNCHANGED <<asmVars, runVars, outVars, serverVars, scanVars, carg, cret>>

\* Clear: m.mu.Lock()
ClearLock(p) ==
    /\ cpc[p] = "idle"
    /\ Started(cpc, p)
    /\ Acquirable(crw, ClearLockMode)
    /\ crw' = Acquire(crw, ClearLockMode, p)
    /\ cpc' = [cpc EXCEPT ![p] = "clear"]
    /\ UNCHANGED <<asmVars, runVars, outVars, serverVars, scanVars, cblog, carg, cret, clog>>

\* variant of ClearStore: the bundle is left in place
ClearStoreKeeps(p) ==
    /\ cpc[p] = "clear"
    /\ crw' = Release(crw, p)
    /\ cpc' = [cpc EXCEPT ![p] = "done"]
    /\ clog' = Append(clog, [op |-> "clear", v |-> 0])
    /\ UNCHANGED <<asmVars, runVars, outVars, serverVars, scanVars, cblog, carg, cret>>

\* Clear: m.blog = nil, with the deferred Unlock
ClearStore(p) ==
    /\ cpc[p] = "clear"
    /\ cblog' = 0
    /\ crw' = Release(crw, p)
    /\ cpc' = [cpc EXCEPT ![p] = "done"]
    /\ clog' = Append(clog, [op |-> "clear", v |-> 0])
    /\ UNCHANGED <<asmVars, runVars, outVars, serverVars, scanVars, carg, cret>>

NextCache ==
    \/ \E p \in CacheProcs : GetLock(p)
    \/ \E p \in CacheProcs : GetReturn(p)
    \/ \E p \in CacheProcs : SetLock(p)
    \/ \E p \in CacheProcs : SetStore(p)
    \/ \E p \in CacheProcs : ClearLock(p)
    \/ \E p \in CacheProcs : ClearStore(p)

\* ------------------------------------------------- Parser.ParseDirectory
Dir == [kind |-> "dir"]

BadDir == [kind |-> "baddir"]

\* a title none of whose characters slugify keeps
TitleBang == <<"!">>

\* the entries a scanned tree is made of
Entries ==
    { File(ExtMd, "none", ChA, 2, "d", <<ChT>>, 1),
      File(ExtMarkdown, "none", ChU, 3, "d", <<>>, 2),
      File(ExtUpperMd, "none", <<>>, 2, "d", <<>>, 3),
      File(ExtMd, "none", ChX, 0, "d", <<>>, 4),
      File(ExtMd, "none", ChT, 1, "", <<ChT>>, 5),
      File(ExtMd, "nofrontmatter", <<>>, 0, "", <<>>, 6),
      File(ExtMd, "read", <<>>, 0, "", <<>>, 0),
      File(ExtTxt, "none", <<>>, 0, "", <<>>, 7),
      File(ExtMd, "none", TitleBang, 2, "d", <<>>, 8),
      Dir,
      BadDir }

\* sequences of at most n entries
RECURSIVE SeqsUpTo(_, _)
SeqsUpTo(S, n) ==
    IF n = 0 THEN {<<>>}
    ELSE LET shorter == SeqsUpTo(S, n - 1)
         IN  shorter \cup {Append(q, e) : q \in shorter, e \in S}

\* the trees scanned: of an unreadable root nothing below it is known
Trees ==
    {Tree(q) : q \in SeqsUpTo(Entries, MaxFiles)}
        \cup {[rootErr |-> TRUE, entries |-> <<>>]}

NoResult == [posts |-> <<>>, err |-> Nil, errs |-> <<>>]

InitScan ==
    /\ tree \in Trees
    /\ sidx = 0
    /\ sacc = EmptyAcc
    /\ spc = "walk"
    /\ sres = NoResult
    /\ ctxDone = FALSE
    /\ cancelAt = 0

ScanOff ==
    /\ tree = Tree(<<>>)
    /\ sidx = 0
    /\ sacc = EmptyAcc
    /\ spc = "off"
    /\ sres = NoResult
    /\ ctxDone = FALSE
    /\ cancelAt = 0

\* fs.WalkDir calls the function for the root
ScanRoot ==
    /\ spc = "walk"
    /\ sidx = 0
    /\ sacc' = WalkRoot(tree)
    /\ sidx' = 1
    /\ UNCHANGED <<asmVars, runVars, outVars, serverVars, cacheVars, tree, spc, sres, ctxDone, cancelAt>>

\* fs.WalkDir calls the function for the next entry
ScanVisit ==
    /\ spc = "walk"
    /\ sidx \in 1..Len(tree.entries)
    /\ ~tree.rootErr
    /\ sacc' = WalkFn(sacc, tree.entries[sidx], sidx)
    /\ sidx' = sidx + 1
    /\ UNCHANGED <<asmVars, runVars, outVars, serverVars, cacheVars, tree, spc, sres, ctxDone, cancelAt>>

\* fs.WalkDir has returned: the sort and the return
ScanFinish ==
    /\ spc = "walk"
    /\ sidx > Len(tree.entries)
    /\ sres' = FinishParse(sacc)
    /\ spc' = "done"
    /\ UNCHANGED <<asmVars, runVars, outVars, serverVars, cacheVars, tree, sidx, sacc, ctxDone, cancelAt>>

NextScan ==
    \/ ScanRoot
    \/ ScanVisit
    \/ ScanFinish

\* The scan while the caller holds a context: Generate takes ctx and its
\* caller may cancel it at any time, but ParseDirectory and the function it
\* gives to fs.WalkDir never read a context, so the walk takes the same steps
\* whether or not the context is done.
Canceled == "context.Canceled"

\* the caller cancels the context
Cancel ==
    /\ spc = "walk"
    /\ ~ctxDone
    /\ ctxDone' = TRUE
    /\ cancelAt' = sidx
    /\ UNCHANGED <<asmVars, runVars, outVars, serverVars, cacheVars, tree, sidx, sacc, spc, sres>>

NextScanCtx ==
    \/ Cancel
    \/ ScanRoot
    \/ ScanVisit
    \/ ScanFinish

\* ------------------------------------------------------ Generator.Generate
\* Generate as the steps it takes: ParseDirectory (the scan above), then
\* assembleRawBlog or the loops of assembleBlogWithTemplates.
TitleUpperA == <<"A">>

TagGo == <<"G", "o">>

TagLowerGo == <<"g", "o">>

\* the entries of the trees Generate is run on: posts whose titles give the
\* same slug, tags that differ in case only, a post without a description
GenEntries ==
    { File(ExtMd, "none", ChA, 2, "d", <<TagGo>>, 1),
      File(ExtMd, "none", TitleUpperA, 2, "d", <<TagLowerGo>>, 2),
      File(ExtMd, "none", ChU, 3, "d", <<ChT, TagGo>>, 3),
      File(ExtMd, "none", ChT, 1, "d", <<>>, 4),
      File(ExtMd, "none", ChX, 2, "", <<ChT>>, 5) }

GenTrees == {Tree(q) : q \in SeqsUpTo(GenEntries, MaxFiles)}

Templates == {"pages/post.tmpl", "pages/index.tmpl", "pages/tag.tmpl", "pages/tags.tmpl"}

\* a renderer one of whose templates fails to execute
FailingRenderer(t) == [isNil |-> FALSE, fails |-> {t}]

\* the generators Generate is called on: generator.New with or without a
\* renderer, with or without config.WithRawOutput()
GenGenerators ==
    {NewGenerator(r, raw, <<Slash>>) :
        r \in {NoRenderer, GoodRenderer} \cup {FailingRenderer(t) : t \in Templates},
        raw \in {FALSE}}
    \cup {NewGenerator(NoRenderer, TRUE, <<Slash>>)}

NoGenerateResult == [err |-> "none"]

AsmOff ==
    /\ ag = NewGenerator(NoRenderer, TRUE, <<Slash>>)
    /\ apc = "off"
    /\ aposts = <<>>
    /\ ai = 0
    /\ ablog = NewEmptyGeneratedBlog
    /\ atags = <<>>
    /\ acalls = <<>>
    /\ ares = NoGenerateResult

InitGenerate ==
    /\ tree \in GenTrees
    /\ sidx = 0
    /\ sacc = EmptyAcc
    /\ spc = "walk"
    /\ sres = NoResult
    /\ ctxDone = FALSE
    /\ cancelAt = 0
    /\ ag \in GenGenerators
    /\ apc = "parse"
    /\ aposts = <<>>
    /\ ai = 0
    /\ ablog = NewEmptyGeneratedBlog
    /\ atags = <<>>
    /\ acalls = <<>>
    /\ ares = NoGenerateResult

\* m[k] = v on a Go map
MapSet(m, k, v) == [x \in (DOMAIN m) \cup {k} |-> IF x = k THEN v ELSE m[x]]

\* variant of ReturnError: the blog filled so far is returned with the error
ReturnErrorWithBlog(msg) ==
    /\ ares' = [err |-> msg, blog |-> ablog]
    /\ apc' = "done"

\* return nil, err: Generate is over
ReturnError(msg) ==
    /\ ares' = [err |-> msg]
    /\ apc' = "done"

\* variant of GenerateParseFailed: the posts that did parse are assembled
GenerateParseFailedPartial ==
    /\ apc = "parse"
    /\ spc = "done"
    /\ sres.err # Nil
    /\ ares' = [err |-> "", blog |-> assembleRawBlog(sres.posts)]
    /\ apc' = "done"
    /\ UNCHANGED <<serverVars, cacheVars, scanVars, runVars, outVars, ag, aposts, ai, ablog, atags, acalls>>

\* Generate, lines 113-116: if err != nil { return nil, err }
GenerateParseFailed ==
    /\ apc = "parse"
    /\ spc = "done"
    /\ sres.err # Nil
    /\ ReturnError(sres.err)
    /\ UNCHANGED <<serverVars, cacheVars, scanVars, runVars, outVars, ag, aposts, ai, ablog, atags, acalls>>

\* Generate, lines 119-122: return g.assembleRawBlog(posts), nil
GenerateRaw ==
    /\ apc = "parse"
    /\ spc = "done"
    /\ sres.err = Nil
    /\ ag.RawOutput
    /\ ares' = [err |-> "", blog |-> assembleRawBlog(sres.posts)]
    /\ apc' = "done"
    /\ UNCHANGED <<serverVars, cacheVars, scanVars, runVars, outVars, ag, aposts, ai, ablog, atags, acalls>>

\* variant of AsmStart: the renderer is not checked
AsmStartNoCheck ==
    /\ apc = "parse"
    /\ spc = "done"
    /\ sres.err = Nil
    /\ ~ag.RawOutput
    /\ aposts' = SortByDate(sres.posts)
    /\ ablog' = NewEmptyGeneratedBlog
    /\ ai' = 1
    /\ apc' = "posts"
    /\ UNCHANGED <<serverVars, cacheVars, scanVars, runVars, outVars, ag, atags, acalls, ares>>

\* assembleBlogWithTemplates, lines 154-162: the renderer check,
\* NewEmptyGeneratedBlog, posts.SortByDate()
AsmStart ==
    /\ apc = "parse"
    /\ spc = "done"
    /\ sres.err = Nil
    /\ ~ag.RawOutput
    /\ IF ag.renderer.isNil
       THEN /\ ReturnError("template renderer is nil")
            /\ UNCHANGED <<aposts, ai, ablog>>
       ELSE /\ aposts' = SortByDate(sres.posts)
            /\ ablog' = NewEmptyGeneratedBlog
            /\ ai' = 1
            /\ apc' = "posts"
            /\ UNCHANGED ares
    /\ UNCHANGED <<serverVars, cacheVars, scanVars, runVars, outVars, ag, atags, acalls>>

\* lines 165-183: one iteration of the loop over posts
AsmRenderPost ==
    /\ apc = "posts"
    /\ ai <= Len(aposts)
    /\ acalls' = Append(acalls, "pages/post.tmpl")
    /\ IF "pages/post.tmpl" \in ag.renderer.fails
       THEN /\ ReturnError("failed to render post")
            /\ UNCHANGED <<ai, ablog>>
       ELSE /\ ablog' = [ablog EXCEPT !.Posts =
                            MapSet(@, aposts[ai].Slug, RenderPost(aposts[ai], ag.BlogRoot))]
            /\ ai' = ai + 1
            /\ UNCHANGED <<apc, ares>>
    /\ UNCHANGED <<serverVars, cacheVars, scanVars, runVars, outVars, ag, aposts, atags>>

\* lines 185-211: RenderIndex, then allTags := posts.GetAllTags()
AsmRenderIndex ==
    /\ apc = "posts"
    /\ ai > Len(aposts)
    /\ acalls' = Append(acalls, "pages/index.tmpl")
    /\ IF "pages/index.tmpl" \in ag.renderer.fails
       THEN /\ ReturnError("failed to render index")
            /\ UNCHANGED <<ai, ablog, atags>>
       ELSE /\ ablog' = [ablog EXCEPT !.Index = RenderIndex(aposts, ag.BlogRoot)]
            /\ atags' \in GetAllTags(aposts)
            /\ ai' = 1
            /\ apc' = "tags"
            /\ UNCHANGED ares
    /\ UNCHANGED <<serverVars, cacheVars, scanVars, runVars, outVars, ag, aposts>>

\* lines 212-239: one iteration of the loop over allTags
AsmRenderTag ==
    /\ apc = "tags"
    /\ ai <= Len(atags)
    /\ acalls' = Append(acalls, "pages/tag.tmpl")
    /\ IF "pages/tag.tmpl" \in ag.renderer.fails
       THEN /\ ReturnError("failed to render tag page")
            /\ UNCHANGED <<ai, ablog>>
       ELSE /\ ablog' = [ablog EXCEPT !.Tags =
                            MapSet(@, atags[ai],
                                   RenderTag(atags[ai], FilterByTag(aposts, atags[ai]),
                                             ag.BlogRoot))]
            /\ ai' = ai + 1
            /\ UNCHANGED <<apc, ares>>
    /\ UNCHANGED <<serverVars, cacheVars, scanVars, runVars, outVars, ag, aposts, atags>>

\* lines 241-275: tagInfos, sort.Slice, RenderTagsIndex, return blog, nil
AsmRenderTagsIndex ==
    /\ apc = "tags"
    /\ ai > Len(atags)
    /\ acalls' = Append(acalls, "pages/tags.tmpl")
    /\ IF "pages/tags.tmpl" \in ag.renderer.fails
       THEN /\ ReturnError("failed to render tags index")
            /\ UNCHANGED ablog
       ELSE /\ \E sorted \in SortedTagInfos(
                                [i \in 1..Len(atags) |->
                                    [Name |-> atags[i],
                                     PostCount |-> Len(FilterByTag(aposts, atags[i]))]]) :
                  ablog' = [ablog EXCEPT !.TagsIndex = RenderTagsIndex(sorted, ag.BlogRoot)]
            /\ ares' = [err |-> "", blog |-> ablog']
            /\ apc' = "done"
    /\ UNCHANGED <<serverVars, cacheVars, scanVars, runVars, outVars, ag, aposts, ai, atags>>

NextGenerate ==
    \/ ScanRoot
    \/ ScanVisit
    \/ ScanFinish
    \/ GenerateParseFailed
    \/ GenerateRaw
    \/ AsmStart
    \/ AsmRenderPost
    \/ AsmRenderIndex
    \/ AsmRenderTag
    \/ AsmRenderTagsIndex

\* ------------------------------------------------------ pkg/server: Run
\* Run starts two goroutines, one calling ListenAndServe and one waiting for
\* the context and calling Shutdown, and returns when both have ended.
MsgListen == "error listening and serving"

MsgShutdown == "error shutting down http server"

\* http.Server.Shutdown has been called
ShuttingDown == hpc \in {"shutting", "done"}

RunOff ==
    /\ kpc = "off"
    /\ kctx = "live"
    /\ lpc = "off"
    /\ hpc = "off"
    /\ conns = 0
    /\ inflight = 0
    /\ lnerr = FALSE
    /\ kerr = {}
    /\ kret = Nil

\* Run is called, with a context that may be cancelled already
InitRun ==
    /\ kpc = "start"
    /\ kctx \in {"live", "cancelled"}
    /\ lpc = "off"
    /\ hpc = "off"
    /\ conns = 0
    /\ inflight = 0
    /\ lnerr = FALSE
    /\ kerr = {}
    /\ kret = Nil

\* signal.NotifyContext, the two wg.Go calls, wg.Wait
RunStart ==
    /\ kpc = "start"
    /\ kpc' = "wait"
    /\ lpc' = "ready"
    /\ hpc' = "waiting"
    /\ UNCHANGED <<serverVars, cacheVars, scanVars, asmVars, outVars,
                   kctx, conns, inflight, lnerr, kerr, kret>>

\* the context is cancelled by the caller, or, once signal.NotifyContext has
\* registered it, os.Interrupt arrives
CtxDone ==
    /\ kpc \in {"start", "wait"}
    /\ kctx = "live"
    /\ kctx' \in (IF kpc = "wait" THEN {"cancelled", "interrupted"}
                                  ELSE {"cancelled"})
    /\ UNCHANGED <<serverVars, cacheVars, scanVars, asmVars, outVars,
                   kpc, lpc, hpc, conns, inflight, lnerr, kerr, kret>>

\* ListenAndServe binds the listener and serves; after Shutdown it returns
\* http.ErrServerClosed at once, which is not reported
ListenAndServe ==
    /\ lpc = "ready"
    /\ lpc' = IF ShuttingDown THEN "closed" ELSE "serving"
    /\ UNCHANGED <<serverVars, cacheVars, scanVars, asmVars, outVars,
                   kpc, kctx, hpc, conns, inflight, lnerr, kerr, kret>>

\* ListenAndServe fails to bind, or Serve fails to accept: the goroutine
\* writes the error to os.Stderr and ends
ListenFail ==
    /\ \/ lpc = "ready"
       \/ lpc = "serving" /\ ~ShuttingDown
    /\ lpc' = "failed"
    /\ kerr' = kerr \cup {MsgListen}
    /\ UNCHANGED <<serverVars, cacheVars, scanVars, asmVars, outVars,
                   kpc, kctx, hpc, conns, inflight, lnerr, kret>>

\* Serve returns http.ErrServerClosed once Shutdown has closed the listener
ListenClosed ==
    /\ lpc = "serving"
    /\ ShuttingDown
    /\ lpc' = "closed"
    /\ UNCHANGED <<serverVars, cacheVars, scanVars, asmVars, outVars,
                   kpc, kctx, hpc, conns, inflight, lnerr, kerr, kret>>

\* Serve accepts a connection, which then waits for its first request
Accept ==
    /\ lpc = "serving"
    /\ ~ShuttingDown
    /\ conns + inflight < MaxInflight
    /\ conns' = conns + 1
    /\ UNCHANGED <<serverVars, cacheVars, scanVars, asmVars, outVars,
                   kpc, kctx, lpc, hpc, inflight, lnerr, kerr, kret>>

\* a connection's request is read and handed to the handler, whatever the
\* listener and Shutdown have done since the connection was accepted
RequestArrive ==
    /\ conns > 0
    /\ conns' = conns - 1
    /\ inflight' = inflight + 1
    /\ UNCHANGED <<serverVars, cacheVars, scanVars, asmVars, outVars,
                   kpc, kctx, lpc, hpc, lnerr, kerr, kret>>

\* a request is answered: the connection is closed, or, unless the server is
\* shutting down, kept alive to wait for its next request
RequestDone ==
    /\ inflight > 0
    /\ inflight' = inflight - 1
    /\ conns' \in (IF ShuttingDown THEN {conns} ELSE {conns, conns + 1})
    /\ UNCHANGED <<serverVars, cacheVars, scanVars, asmVars, outVars,
                   kpc, kctx, lpc, hpc, lnerr, kerr, kret>>

\* the client closes a connection that is waiting for a request
ConnClosed ==
    /\ conns > 0
    /\ conns' = conns - 1
    /\ UNCHANGED <<serverVars, cacheVars, scanVars, asmVars, outVars,
                   kpc, kctx, lpc, hpc, inflight, lnerr, kerr, kret>>

\* <-ctx.Done() returns; Shutdown is called with a 10 second deadline and
\* closes the listener, if one is open, which may fail
ShutdownBegin ==
    /\ hpc = "waiting"
    /\ kctx # "live"
    /\ hpc' = "shutting"
    /\ lnerr' \in (IF lpc = "serving" THEN BOOLEAN ELSE {FALSE})
    /\ UNCHANGED <<serverVars, cacheVars, scanVars, asmVars, outVars,
                   kpc, kctx, lpc, conns, inflight, kerr, kret>>

\* Shutdown, once Serve has returned, closes a connection that is waiting
\* for a request
ShutdownClosesConn ==
    /\ hpc = "shutting"
    /\ lpc # "serving"
    /\ conns > 0
    /\ conns' = conns - 1
    /\ UNCHANGED <<serverVars, cacheVars, scanVars, asmVars, outVars,
                   kpc, kctx, lpc, hpc, inflight, lnerr, kerr, kret>>

\* no connection is left: Shutdown returns the error of closing the
\* listener, nil if there was none; the goroutine writes an error to
\* os.Stderr
ShutdownComplete ==
    /\ hpc = "shutting"
    /\ lpc # "serving"
    /\ conns = 0
    /\ inflight = 0
    /\ hpc' = "done"
    /\ kerr' = IF lnerr THEN kerr \cup {MsgShutdown} ELSE kerr
    /\ UNCHANGED <<serverVars, cacheVars, scanVars, asmVars, outVars,
                   kpc, kctx, lpc, conns, inflight, lnerr, kret>>

\* a Shutdown that is given no deadline
ShutdownNoDeadline ==
    /\ hpc = "shutting"
    /\ inflight > 0
    /\ FALSE
    /\ UNCHANGED vars

\* the deadline passes with requests in flight: Shutdown returns the
\* context's error, which the goroutine writes to os.Stderr
ShutdownTimeout ==
    /\ hpc = "shutting"
    /\ lpc # "serving"
    /\ inflight > 0
    /\ hpc' = "done"
    /\ kerr' = kerr \cup {MsgShutdown}
    /\ UNCHANGED <<serverVars, cacheVars, scanVars, asmVars, outVars,
                   kpc, kctx, lpc, conns, inflight, lnerr, kret>>

\* a Run that returns what its goroutines reported
RunReturnReported ==
    /\ kpc = "wait"
    /\ lpc \in {"failed", "closed"}
    /\ hpc = "done"
    /\ kpc' = "returned"
    /\ kret' = IF kerr = {} THEN Nil ELSE CHOOSE m \in kerr : TRUE
    /\ UNCHANGED <<serverVars, cacheVars, scanVars, asmVars, outVars,
                   kctx, lpc, hpc, conns, inflight, lnerr, kerr>>

\* wg.Wait returns when both goroutines have ended; return nil
RunReturn ==
    /\ kpc = "wait"
    /\ lpc \in {"failed", "closed"}
    /\ hpc = "done"
    /\ kpc' = "returned"
    /\ kret' = Nil
    /\ UNCHANGED <<serverVars, cacheVars, scanVars, asmVars, outVars,
                   kctx, lpc, hpc, conns, inflight, lnerr, kerr>>

NextRun ==
    \/ RunStart
    \/ CtxDone
    \/ ListenAndServe
    \/ ListenFail
    \/ ListenClosed
    \/ Accept
    \/ RequestArrive
    \/ RequestDone
    \/ ConnClosed
    \/ ShutdownBegin
    \/ ShutdownClosesConn
    \/ ShutdownComplete
    \/ ShutdownTimeout
    \/ RunReturn

\* the goroutines are scheduled, Shutdown polls the connections and the
\* deadline's timer fires; the context, the listener's failures, the clients
\* and the handlers are not in the program's hands
FairRun ==
    /\ WF_vars(RunStart)
    /\ WF_vars(ListenAndServe)
    /\ WF_vars(ListenClosed)
    /\ WF_vars(ShutdownBegin)
    /\ WF_vars(ShutdownClosesConn)
    /\ WF_vars(ShutdownComplete)
    /\ WF_vars(ShutdownTimeout)
    /\ WF_vars(RunReturn)

\* ------------------------------------------- pkg/outputter: DirectoryWriter
\* The output directory is modelled as the set of its directories and a map
\* from <<directory, file name>> to the file's bytes; "" is the output
\* directory itself.
DirPosts == "posts"

DirTags == "tags"

IndexName == <<"i", "n", "d", "e", "x">>

NoFiles == [dirs |-> {}, files |-> <<>>]

\* NewDirectoryWriter(outputDir, opts...): only WithRawOutput is applied
NewDirectoryWriter(rawOutput) == [RawOutput |-> rawOutput]

\* the blogs a DirectoryWriter is given: whatever Generate can return
WriteBundles == Bundles

\* the blogs of a generator built with WithRawOutput
RawBundles ==
    {res.blog :
        res \in {x \in UNION {GenerateOn[g, f] :
                                g \in {y \in Generators : y.RawOutput},
                                f \in FSIds} : x.err = ""}}

\* os.MkdirAll(dir, 0755)
MkdirAll(fs, dir) == [fs EXCEPT !.dirs = @ \cup {"", dir}]

\* a WriteFile that opens the file with O_APPEND
WriteFileAppend(fs, dir, name, content) ==
    [fs EXCEPT !.files =
        MapSet(@, <<dir, name>>,
               IF <<dir, name>> \in DOMAIN @
                   THEN [old |-> @[<<dir, name>>], new |-> content]
                   ELSE content)]

\* os.WriteFile(path, content, 0644): creates the file or truncates it
WriteFile(fs, dir, name, content) ==
    [fs EXCEPT !.files = MapSet(@, <<dir, name>>, content)]

\* a failed os.WriteFile: the file could not be opened, or was created or
\* truncated and then holds nothing, a part of the content, or all of it
\* (when closing the file failed)
WriteFileFailed(fs, dir, name, content) ==
    {fs} \cup {[fs EXCEPT !.files = MapSet(@, <<dir, name>>, c)] :
                  c \in {NoBytes, [prefixOf |-> content], content}}

\* a failed os.MkdirAll: nothing was created, or the directories above the
\* one that failed were
MkdirAllFailed(fs) == {fs, [fs EXCEPT !.dirs = @ \cup {""}]}

OutOff ==
    /\ wd = NewDirectoryWriter(FALSE)
    /\ wblog = NewEmptyGeneratedBlog
    /\ wpc = "off"
    /\ wtodo = {}
    /\ wfs = NoFiles
    /\ wret = <<>>
    /\ wcount = 0
    /\ wfirst = NoFiles

\* a DirectoryWriter, a blog and an empty output directory
InitOut ==
    /\ wd \in {NewDirectoryWriter(r) : r \in BOOLEAN}
    /\ wblog \in WriteBundles
    /\ wpc = "idle"
    /\ wtodo = {}
    /\ wfs = NoFiles
    /\ wret = <<>>
    /\ wcount = 0
    /\ wfirst = NoFiles

\* HandleGeneratedBlog returns err: the calls are counted and the directory
\* after the first one is remembered
Returned(err, fs) ==
    /\ wpc' = "idle"
    /\ wret' = Append(wret, err)
    /\ wcount' = wcount + 1
    /\ wfirst' = IF wcount = 0 THEN fs ELSE wfirst

\* HandleGeneratedBlog(ctx, blog) is called
HandleGeneratedBlog ==
    /\ wpc = "idle"
    /\ wcount < MaxWrites
    /\ wpc' = "postsdir"
    /\ UNCHANGED <<serverVars, cacheVars, scanVars, asmVars, runVars,
                   wd, wblog, wtodo, wfs, wret, wcount, wfirst>>

\* writeMapToFiles(blog.Posts, outputDir/posts): os.MkdirAll
MkdirPosts ==
    /\ wpc = "postsdir"
    /\ wfs' = MkdirAll(wfs, DirPosts)
    /\ wtodo' = DOMAIN wblog.Posts
    /\ wpc' = "posts"
    /\ UNCHANGED <<serverVars, cacheVars, scanVars, asmVars, runVars,
                   wd, wblog, wret, wcount, wfirst>>

\* writeMapToFiles(blog.Posts, ...): one iteration of the range over the map
WritePost ==
    /\ wpc = "posts"
    /\ \E k \in wtodo :
          /\ wfs' = WriteFile(wfs, DirPosts, k, wblog.Posts[k])
          /\ wtodo' = wtodo \ {k}
    /\ UNCHANGED <<serverVars, cacheVars, scanVars, asmVars, runVars,
                   wd, wblog, wpc, wret, wcount, wfirst>>

\* os.WriteFile(outputDir/index.html, blog.Index), then the test of RawOutput
WriteIndex ==
    /\ wpc = "posts"
    /\ wtodo = {}
    /\ wfs' = WriteFile(wfs, "", IndexName, wblog.Index)
    /\ wpc' = IF wd.RawOutput THEN "return" ELSE "tagsdir"
    /\ UNCHANGED <<serverVars, cacheVars, scanVars, asmVars, runVars,
                   wd, wblog, wtodo, wret, wcount, wfirst>>

\* writeMapToFiles(blog.Tags, outputDir/tags): os.MkdirAll
MkdirTags ==
    /\ wpc = "tagsdir"
    /\ wfs' = MkdirAll(wfs, DirTags)
    /\ wtodo' = DOMAIN wblog.Tags
    /\ wpc' = "tags"
    /\ UNCHANGED <<serverVars, cacheVars, scanVars, asmVars, runVars,
                   wd, wblog, wret, wcount, wfirst>>

\* writeMapToFiles(blog.Tags, ...): one iteration of the range over the map
WriteTag ==
    /\ wpc = "tags"
    /\ \E k \in wtodo :
          /\ wfs' = WriteFile(wfs, DirTags, k, wblog.Tags[k])
          /\ wtodo' = wtodo \ {k}
    /\ UNCHANGED <<serverVars, cacheVars, scanVars, asmVars, runVars,
                   wd, wblog, wpc, wret, wcount, wfirst>>

\* a HandleGeneratedBlog that writes tags/index.html whatever its length
WriteTagsIndexAlways ==
    /\ wpc = "tags"
    /\ wtodo = {}
    /\ wfs' = WriteFile(wfs, DirTags, IndexName, wblog.TagsIndex)
    /\ wpc' = "return"
    /\ UNCHANGED <<serverVars, cacheVars, scanVars, asmVars, runVars,
                   wd, wblog, wtodo, wret, wcount, wfirst>>

\* if len(blog.TagsIndex) > 0 { os.WriteFile(outputDir/tags/index.html) }
WriteTagsIndex ==
    /\ wpc = "tags"
    /\ wtodo = {}
    /\ wfs' = IF wblog.TagsIndex # NoBytes
                  THEN WriteFile(wfs, DirTags, IndexName, wblog.TagsIndex)
                  ELSE wfs
    /\ wpc' = "return"
    /\ UNCHANGED <<serverVars, cacheVars, scanVars, asmVars, runVars,
                   wd, wblog, wtodo, wret, wcount, wfirst>>

\* os.MkdirAll fails: HandleGeneratedBlog returns the error
MkdirFails ==
    /\ wpc \in {"postsdir", "tagsdir"}
    /\ \E fs \in MkdirAllFailed(wfs) :
          /\ wfs' = fs
          /\ Returned("mkdir failed", fs)
    /\ UNCHANGED <<serverVars, cacheVars, scanVars, asmVars, runVars,
                   wd, wblog, wtodo>>

\* the file the next os.WriteFile of HandleGeneratedBlog writes, and its
\* content; none when the tags index is empty and is not written
NextWrite ==
    IF wpc = "posts"
    THEN IF wtodo = {}
         THEN {[dir |-> "", name |-> IndexName, content |-> wblog.Index]}
         ELSE {[dir |-> DirPosts, name |-> k, content |-> wblog.Posts[k]] : k \in wtodo}
    ELSE IF wtodo = {}
         THEN IF wblog.TagsIndex = NoBytes THEN {}
              ELSE {[dir |-> DirTags, name |-> IndexName, content |-> wblog.TagsIndex]}
         ELSE {[dir |-> DirTags, name |-> k, content |-> wblog.Tags[k]] : k \in wtodo}

\* os.WriteFile fails: HandleGeneratedBlog returns the error
WriteFails ==
    /\ wpc \in {"posts", "tags"}
    /\ \E w \in NextWrite :
       \E fs \in WriteFileFailed(wfs, w.dir, w.name, w.content) :
          /\ wfs' = fs
          /\ Returned("write failed", fs)
    /\ UNCHANGED <<serverVars, cacheVars, scanVars, asmVars, runVars,
                   wd, wblog, wtodo>>

\* return nil
HandleReturn ==
    /\ wpc = "return"
    /\ Returned(Nil, wfs)
    /\ UNCHANGED <<serverVars, cacheVars, scanVars, asmVars, runVars,
                   wd, wblog, wtodo, wfs>>

NextOut ==
    \/ HandleGeneratedBlog
    \/ MkdirPosts
    \/ WritePost
    \/ WriteIndex
    \/ MkdirTags
    \/ WriteTag
    \/ WriteTagsIndex
    \/ MkdirFails
    \/ WriteFails
    \/ HandleReturn

\* ---------------------------------------------------------- specifications
\* the live server
Init == InitServer /\ InitCache /\ ScanOff /\ AsmOff /\ RunOff /\ OutOff

Next == NextServer

Spec == Init /\ [][Next]_vars

\* the snapshot cache
ServerOff ==
    /\ cfg = [rootOpt |-> <<Slash>>, raw |-> FALSE]
    /\ gen = NewGenerator(GoodRenderer, cfg.raw, cfg.rootOpt)
    /\ postsDir = 1
    /\ genPostsDir = 1
    /\ mu = 0
    /\ handler = 0
    /\ newpc = "off"
    /\ upc = [u \in Updaters |-> "idle"]
    /\ uarg = [u \in Updaters |-> 0]
    /\ usrc = [u \in Updaters |-> 0]
    /\ uret = [u \in Updaters |-> Nil]
    /\ rpc = [c \in Clients |-> "off"]
    /\ rpath = [c \in Clients |-> <<>>]
    /\ rh = [c \in Clients |-> 0]
    /\ rresp = [c \in Clients |-> NoResponse]
    /\ rcount = 0
    /\ installed = FALSE
    /\ rseen = [c \in Clients |-> NotSeen]

InitCacheSpec ==
    ServerOff /\ InitCache /\ ScanOff /\ AsmOff /\ RunOff /\ OutOff

SpecCache == InitCacheSpec /\ [][NextCache]_vars

\* the directory scanner
InitScanSpec ==
    ServerOff /\ InitCache /\ InitScan /\ AsmOff /\ RunOff /\ OutOff

SpecScan == InitScanSpec /\ [][NextScan]_vars

\* the directory scanner while the caller of Generate may cancel its context
SpecScanCtx == InitScanSpec /\ [][NextScanCtx]_vars

\* Generate: the scan followed by the assembly
InitGenerateSpec ==
    ServerOff /\ InitCache /\ InitGenerate /\ RunOff /\ OutOff

SpecGenerate == InitGenerateSpec /\ [][NextGenerate]_vars

\* Run, from its call to its return
InitRunSpec == ServerOff /\ InitCache /\ ScanOff /\ AsmOff /\ InitRun /\ OutOff

SpecRun == InitRunSpec /\ [][NextRun]_vars /\ FairRun

\* HandleGeneratedBlog, called again and again with one blog
InitOutSpec == ServerOff /\ InitCache /\ ScanOff /\ AsmOff /\ RunOff /\ InitOut

SpecOut == InitOutSpec /\ [][NextOut]_vars

\* ------------------------------------------------------------------ claims
\* the root prefix R of the server's handlers, as path segments
RootPath ==
    LET r == HandlerRoot(cfg.rootOpt) IN [i \in 1..Len(r) |-> r[i].s]

\* the handlers refreshHandler can build: one per successful Generate
CompleteHandlers ==
    {Handler(res.blog, cfg.rootOpt) :
        res \in {x \in UNION {GenerateOn[gen, f] : f \in FSIds} : x.err = ""}}

\* C1: the cell only ever holds nothing or the handler of one complete
\* bundle, and every response is, status and body, the answer of the one
\* handler that was in the cell when the request loaded it, whatever
\* UpdatePosts did to the cell in between.
C1_ResponseFromOneBundle ==
    /\ handler = 0 \/ Deref(handler) \in CompleteHandlers
    /\ \A c \in Clients :
        rpc[c] = "done" => rresp[c] = ServeHTTP(Deref(rseen[c].cell), rpath[c])

\* a response from a bundle that UpdatePosts has replaced in the meantime
C1_Witness ==
    \E c \in Clients :
        /\ rpc[c] = "done"
        /\ rresp[c].status = 200
        /\ rseen[c].cell # 0
        /\ handler # rseen[c].cell
        /\ rresp[c] # ServeHTTP(Deref(handler), rpath[c])

\* C2: the step in which an UpdatePosts whose regeneration fails returns
\* gives the caller a non-nil error and leaves the handler cell as it was.
C2_FailedRefreshKeepsHandler ==
    [][\A u \in Updaters :
          ( /\ upc[u] = "generating"
            /\ upc'[u] = "done"
            /\ \A res \in GenerateOn[gen, usrc[u]] : res.err # "" )
          => (uret'[u] # Nil /\ handler' = handler)]_vars

\* a failed UpdatePosts on a server that has a bundle
C2_Witness ==
    \E u \in Updaters :
        /\ upc[u] = "done"
        /\ uret[u] # Nil
        /\ handler # 0
        /\ Deref(handler) \in CompleteHandlers

\* C3: a response is 503 exactly when no handler had been stored when the
\* request loaded the cell; once one has been stored the cell is never empty.
C3_Unavailable503 ==
    /\ installed => handler # 0
    /\ \A c \in Clients :
        rpc[c] = "done" => (rresp[c].status = 503 <=> ~rseen[c].installed)

\* a request served after a failed UpdatePosts on a server that has a bundle
C3_Witness ==
    \E c \in Clients :
        /\ rpc[c] = "done"
        /\ rseen[c].installed
        /\ rresp[c].status = 200
        /\ \E u \in Updaters : upc[u] = "done" /\ uret[u] # Nil

\* C4: at no time are two Generate calls in progress on the Server's generator.
C4_OneGenerateAtATime ==
    Cardinality({u \in Updaters : upc[u] = "generating"}) <= 1

\* C5: GET R/tags/{name} is answered with the bundle's topic bytes for name,
\* and with 404 when name is not a key of the bundle's topics.
C5_TagRoute ==
    \A c \in Clients :
        ( /\ rpc[c] = "done"
          /\ rseen[c].cell # 0
          /\ Len(rpath[c]) = Len(RootPath) + 2
          /\ SubSeq(rpath[c], 1, Len(RootPath) + 1) = RootPath \o <<SegTags>> )
        => LET name == rpath[c][Len(rpath[c])]
               B == Deref(rseen[c].cell).blog
           IN  IF name \in DOMAIN B.Tags
               THEN rresp[c] = [status |-> 200, body |-> B.Tags[name]]
               ELSE rresp[c].status = 404

\* C6: GET R/posts/{slug} is answered with the bundle's post bytes for slug,
\* and with 404 when slug is not a key of the bundle's posts.
C6_PostRoute ==
    \A c \in Clients :
        ( /\ rpc[c] = "done"
          /\ rseen[c].cell # 0
          /\ Len(rpath[c]) = Len(RootPath) + 2
          /\ SubSeq(rpath[c], 1, Len(RootPath) + 1) = RootPath \o <<SegPosts>> )
        => LET slug == rpath[c][Len(rpath[c])]
               B == Deref(rseen[c].cell).blog
           IN  IF slug \in DOMAIN B.Posts
               THEN rresp[c] = [status |-> 200, body |-> B.Posts[slug]]
               ELSE rresp[c].status = 404

\* a post served from a bundle that lacks another slug
C6_Witness ==
    \E c \in Clients :
        /\ rpc[c] = "done"
        /\ rseen[c].cell # 0
        /\ rpath[c] = RootPath \o <<SegPosts, ChA>>
        /\ rresp[c] = [status |-> 200, body |-> Deref(rseen[c].cell).blog.Posts[ChA]]
        /\ ChU \notin DOMAIN Deref(rseen[c].cell).blog.Posts

\* the bundle of the latest Set or Clear that ran before position i of the log
LastEffect(log, i) ==
    LET W == {j \in 1..(i - 1) : log[j].op \in {"set", "clear"}}
    IN  IF W = {} THEN 0
        ELSE log[CHOOSE j \in W : \A k \in W : k <= j].v

\* C7: every Get returns the bundle of the latest Set that took effect before
\* it, or nil when none has since the cache was created or last cleared.
C7_GetReturnsLatestSet ==
    \A i \in 1..Len(clog) : clog[i].op = "get" => clog[i].v = LastEffect(clog, i)

\* a Get after a Set, and a Get after the Clear that followed a Set
C7_Witness ==
    \E i, j, k \in 1..Len(clog) :
        /\ i < j /\ j < k
        /\ clog[i].op = "set"
        /\ clog[j].op = "clear"
        /\ clog[k].op = "get" /\ clog[k].v = 0

InCriticalSection(p) == cpc[p] \in {"get", "set", "clear"}

\* C8: while a Set or a Clear is inside its critical section no other Get,
\* Set or Clear is inside its own.
C8_WritersExclusive ==
    \A p, q \in CacheProcs :
        (p # q /\ cpc[p] \in {"set", "clear"}) => ~InCriticalSection(q)

\* a Set inside its critical section while another caller has yet to enter
C8_Witness ==
    \E p, q \in CacheProcs :
        /\ p # q
        /\ cpc[p] = "set"
        /\ cpc[q] = "idle"
        /\ clog # <<>>

\* a content file that cannot be decoded or lacks a required field
FileInvalid(e) ==
    \/ e.fault # "none"
    \/ e.title = <<>>
    \/ e.date = 0
    \/ e.desc = ""

ContentFiles(t) == {i \in 1..Len(t.entries) : IsContentFile(t.entries[i])}

FailingFiles(t) == {i \in ContentFiles(t) : FileInvalid(t.entries[i])}

UnreadableDirs(t) ==
    {i \in 1..Len(t.entries) : t.entries[i].kind = "baddir"}
        \cup (IF t.rootErr THEN {0} ELSE {})

\* C9: a scan over N content files of which K fail returns N-K documents, one
\* for each valid file, and one failure with the file's path for each of the
\* K failing files; the only other failures are those of unreadable
\* directories.
C9_PartialFailureIsolation ==
    spc = "done" =>
        LET N == Cardinality(ContentFiles(tree))
            K == Cardinality(FailingFiles(tree))
        IN  /\ Len(sres.posts) = N - K
            /\ \A i \in ContentFiles(tree) \ FailingFiles(tree) :
                 \E n \in 1..Len(sres.posts) : sres.posts[n].SourcePath = i
            /\ \A i \in FailingFiles(tree) :
                 Cardinality({n \in 1..Len(sres.errs) : sres.errs[n].Path = i}) = 1
            /\ Len(sres.errs) = K + Cardinality(UnreadableDirs(tree))

\* a scan of a valid file, then a failing file, then a valid file
C9_Witness ==
    /\ spc = "done"
    /\ Len(tree.entries) = 3
    /\ ContentFiles(tree) = {1, 2, 3}
    /\ FailingFiles(tree) = {2}
    /\ Len(sres.posts) = 2
    /\ Len(sres.errs) = 1

\* C10: every document a scan returns has a title, a date and a description;
\* a content file lacking one of them is among the failures and not among
\* the documents.
C10_OnlyValidDocuments ==
    spc = "done" =>
        /\ \A n \in 1..Len(sres.posts) :
             /\ sres.posts[n].Title # <<>>
             /\ sres.posts[n].Date # 0
             /\ sres.posts[n].Description # ""
        /\ \A i \in ContentFiles(tree) :
             LET e == tree.entries[i]
             IN  (e.title = <<>> \/ e.date = 0 \/ e.desc = "") =>
                    /\ \E n \in 1..Len(sres.errs) : sres.errs[n].Path = i
                    /\ \A n \in 1..Len(sres.posts) : sres.posts[n].SourcePath # i

\* a scan that kept a valid file and rejected one without a description
C10_Witness ==
    /\ spc = "done"
    /\ Len(sres.posts) > 0
    /\ \E i \in ContentFiles(tree) :
         /\ tree.entries[i].fault = "none"
         /\ tree.entries[i].title # <<>>
         /\ tree.entries[i].date # 0
         /\ tree.entries[i].desc = ""
         /\ \E n \in 1..Len(sres.errs) : sres.errs[n].Path = i

\* C11: when the tree walk itself fails (the root cannot be read) the scan
\* returns a fatal error that is not the ParseErrors of per-file failures,
\* and returns no posts.
C11_WalkFailureFatal ==
    (spc = "done" /\ tree.rootErr)
        => (sres.err \notin {Nil, "ParseErrors"} /\ sres.posts = <<>>)

\* the context was cancelled while an entry of the walk was still to be visited
CancelledInTime == ctxDone /\ cancelAt <= Len(tree.entries)

\* C12: the scan checks the context between files: once the context is
\* cancelled no further entry is processed, and a scan cancelled before its
\* last entry ends with the context's error and no posts, which Generate
\* returns as it is with a nil bundle; every other scan ends with nil or
\* ParseErrors.
C12_CancelAborts ==
    /\ (spc = "walk" /\ ctxDone) =>
          /\ \A i \in 1..Len(sacc.posts) : sacc.posts[i].SourcePath < cancelAt
          /\ \A i \in 1..Len(sacc.errs) : sacc.errs[i].Path < cancelAt
    /\ (spc = "done" /\ CancelledInTime) =>
          /\ sres.err = Canceled
          /\ sres.posts = <<>>
          /\ \A i \in 1..Len(sacc.posts) : sacc.posts[i].SourcePath < cancelAt
          /\ \A g \in Generators : GenerateFrom(g, sres) = {[err |-> Canceled]}
    /\ (spc = "done" /\ ~CancelledInTime) => sres.err \in {Nil, "ParseErrors"}

\* how often x occurs in the list pl
Occurrences(pl, x) == Cardinality({i \in 1..Len(pl) : pl[i] = x})

\* C13: after SortByDate every adjacent pair is in descending date order and
\* the list holds exactly the posts it held before, each as often as before.
C13_SortedDescending ==
    spc = "done" =>
        /\ \A i \in 1..(Len(sres.posts) - 1) :
              sres.posts[i].Date >= sres.posts[i + 1].Date
        /\ Len(sres.posts) = Len(sacc.posts)
        /\ \A i \in 1..Len(sacc.posts) :
              Occurrences(sres.posts, sacc.posts[i]) = Occurrences(sacc.posts, sacc.posts[i])

\* a scan whose posts were not in date order before the sort
C13_Witness ==
    /\ spc = "done"
    /\ Len(sacc.posts) = 3
    /\ sacc.posts[1].Date < sacc.posts[2].Date
    /\ sacc.posts[3].Date < sacc.posts[2].Date
    /\ sres.posts # sacc.posts

\* C14: SortByDate is stable: two posts of equal date are in the same order
\* after the sort as before it.
C14_SortStable ==
    spc = "done" =>
        \A i, j \in 1..Len(sacc.posts) :
            (i < j /\ sacc.posts[i].Date = sacc.posts[j].Date) =>
                \E k, l \in 1..Len(sres.posts) :
                    /\ k < l
                    /\ sres.posts[k] = sacc.posts[i]
                    /\ sres.posts[l] = sacc.posts[j]

\* the steps of Generate return what Generate returns
GenerateStepsAgree == apc = "done" => ares \in Generate(ag, tree)

\* Generate returned a bundle
Assembled == apc = "done" /\ ares.err = ""

\* C15: in every assembled bundle the number of keys of posts is the number
\* of valid input documents (no document's entry is overwritten by another
\* document with the same slug).
C15_SlugUniqueness ==
    Assembled => Cardinality(DOMAIN ares.blog.Posts) = Len(sres.posts)

\* C16: in raw output mode, for any input, the bundle's Tags, Index and
\* TagsIndex are empty, the keys of Posts are the documents' slugs, and for
\* every document Posts[its slug] is exactly that document's Content.
C16_RawPassThrough ==
    (Assembled /\ ag.RawOutput) =>
        /\ DOMAIN ares.blog.Tags = {}
        /\ ares.blog.Index = NoBytes
        /\ ares.blog.TagsIndex = NoBytes
        /\ DOMAIN ares.blog.Posts = {sres.posts[i].Slug : i \in 1..Len(sres.posts)}
        /\ \A i \in 1..Len(sres.posts) :
              ares.blog.Posts[sres.posts[i].Slug] = sres.posts[i].Content

\* C17: when a content file of the tree fails to parse, Generate returns an
\* error and a nil bundle, also when other files are valid.
C17_ParseErrorsFailGenerate ==
    (apc = "done" /\ FailingFiles(tree) # {}) =>
        /\ ares.err = "ParseErrors"
        /\ "blog" \notin DOMAIN ares

\* Generate on a tree holding two valid files and a failing one
C17_Witness ==
    /\ apc = "done"
    /\ Cardinality(FailingFiles(tree)) = 1
    /\ Len(sres.posts) = 2
    /\ ares.err = "ParseErrors"

\* the renderer was called for a template that fails
RenderFailed == \E n \in 1..Len(acalls) : acalls[n] \in ag.renderer.fails

\* C18: when rendering a post, the index, a tag page or the tags index fails,
\* the assembly stops at that call and returns an error and a nil bundle.
C18_RenderFailureNoBundle ==
    /\ RenderFailed => apc = "done"
    /\ (apc = "done" /\ RenderFailed) =>
          /\ ares.err \in {"failed to render post", "failed to render index",
                           "failed to render tag page", "failed to render tags index"}
          /\ "blog" \notin DOMAIN ares
          /\ \A n \in 1..Len(acalls) : acalls[n] \in ag.renderer.fails => n = Len(acalls)

\* the tags index fails to render after posts and tag pages were rendered
C18_Witness ==
    /\ apc = "done"
    /\ "pages/tags.tmpl" \in ag.renderer.fails
    /\ acalls # <<>>
    /\ acalls[Len(acalls)] = "pages/tags.tmpl"
    /\ DOMAIN ablog.Posts # {}
    /\ DOMAIN ablog.Tags # {}
    /\ ares = [err |-> "failed to render tags index"]

\* C19: templated assembly on a generator without a renderer returns the
\* "template renderer is nil" error and no bundle, and the renderer is never
\* called.
C19_NilRendererFails ==
    /\ ag.renderer.isNil => acalls = <<>>
    /\ (apc = "done" /\ sres.err = Nil /\ ~ag.RawOutput /\ ag.renderer.isNil) =>
          ares = [err |-> "template renderer is nil"]

\* templated assembly of parsed posts without a renderer
C19_Witness ==
    /\ apc = "done"
    /\ sres.err = Nil
    /\ Len(sres.posts) >= 1
    /\ ~ag.RawOutput
    /\ ag.renderer.isNil
    /\ ares.err = "template renderer is nil"

\* C20: tags that differ in letter case only are one topic: the bundle's Tags
\* has one key, and the tags index one row, for each tag up to case.
C20_TopicsCaseInsensitive ==
    (Assembled /\ ~ag.RawOutput) =>
        LET topics == {ToLower(t) : t \in TagSet(sres.posts)}
        IN  /\ Cardinality(DOMAIN ares.blog.Tags) = Cardinality(topics)
            /\ ares.blog.TagsIndex.total = Cardinality(topics)

\* the (name, post count) pairs of the tags in the order at
TagInfosOf(posts, at) ==
    [i \in 1..Len(at) |->
        [Name |-> at[i], PostCount |-> Len(FilterByTag(posts, at[i]))]]

\* C21: the (tag name, post count) pairs given to RenderTagsIndex are ordered
\* by lower-cased name, and are the same list whatever order GetAllTags
\* returned the tags in.
C21_TagIndexDeterministic ==
    (Assembled /\ ~ag.RawOutput) =>
        LET rows == ares.blog.TagsIndex.tags
        IN  /\ \A i \in 1..(Len(rows) - 1) :
                  ~StrLess(ToLower(rows[i + 1].Name), ToLower(rows[i].Name))
            /\ \A at \in GetAllTags(aposts) :
                  \A q \in SortedTagInfos(TagInfosOf(aposts, at)) : q = rows

\* C22: every page of a templated bundle carries the root prefix the server
\* was configured with as its root.
C22_BlogRootPropagated ==
    (handler # 0 /\ ~cfg.raw) =>
        LET B == Deref(handler).blog
        IN  /\ B.Index.root = cfg.rootOpt
            /\ B.TagsIndex.root = cfg.rootOpt
            /\ \A k \in DOMAIN B.Posts : B.Posts[k].root = cfg.rootOpt
            /\ \A k \in DOMAIN B.Tags : B.Tags[k].root = cfg.rootOpt

\* C23: once the context given to Run is cancelled or an interrupt arrives,
\* Run calls Shutdown, whose deadline bounds the wait for the requests in
\* flight, and then returns; it returns nil, also when Shutdown reported an
\* error.
C23_ShutdownThenReturn ==
    /\ [](kpc = "returned" => (kret = Nil /\ hpc = "done"))
    /\ (kpc \in {"start", "wait"} /\ kctx # "live")
           ~> (kpc = "returned" /\ kret = Nil)

C23_Witness ==
    /\ kpc = "returned"
    /\ kctx = "interrupted"
    /\ lpc = "closed"
    /\ inflight > 0
    /\ MsgShutdown \in kerr
    /\ kret = Nil

\* C30: Run never returns an error: a listener that fails to bind or to
\* serve is reported on os.Stderr only, Run does not return before the
\* context is cancelled or an interrupt arrives, and then it returns nil.
C30_RunReturnsNil ==
    /\ [](/\ kret = Nil
          /\ lpc = "failed" => MsgListen \in kerr
          /\ kpc = "returned" => kctx # "live")
    /\ (lpc = "failed" /\ kctx # "live") ~> (kpc = "returned" /\ kret = Nil)

C30_Witness ==
    /\ kpc = "returned"
    /\ lpc = "failed"
    /\ MsgListen \in kerr
    /\ kret = Nil

\* C24: every post ParseDirectory returns has a non-empty slug, whatever
\* characters its title is made of.
C24_SlugNonEmpty ==
    spc = "done" =>
        \A i \in 1..Len(sres.posts) : sres.posts[i].Slug # <<>>

\* C25: a DirectoryWriter that has written a blog to its output directory
\* and writes the same blog there again leaves the directory with the same
\* directories, files and bytes as after the first write.
C25_IdempotentWrite ==
    (/\ wcount >= 2
     /\ wpc = "idle"
     /\ wret[1] = Nil
     /\ wret[wcount] = Nil) => wfs = wfirst

C25_Witness ==
    /\ wcount = 2
    /\ wret = <<Nil, Nil>>
    /\ ~wd.RawOutput
    /\ DOMAIN wblog.Posts # {}
    /\ DOMAIN wblog.Tags # {}
    /\ wfs = wfirst
    /\ <<DirTags, IndexName>> \in DOMAIN wfs.files

\* the files a write of blog leaves in an empty output directory: a page for
\* each post, index.html and, when withTags, a page for each tag and
\* tags/index.html if the tags index is not empty
Written(blog, withTags) ==
    LET posts == {<<DirPosts, k>> : k \in DOMAIN blog.Posts}
        tags == IF withTags
                    THEN {<<DirTags, k>> : k \in DOMAIN blog.Tags}
                    ELSE {}
        tagsIndex == IF withTags /\ blog.TagsIndex # NoBytes
                         THEN {<<DirTags, IndexName>>}
                         ELSE {}
    IN  [p \in posts \cup tags \cup tagsIndex \cup {<<"", IndexName>>} |->
            IF p \in posts THEN blog.Posts[p[2]]
            ELSE IF p \in tags THEN blog.Tags[p[2]]
            ELSE IF p \in tagsIndex THEN blog.TagsIndex
            ELSE blog.Index]

\* C26 as stated: a write leaves posts/{slug}.html for each post, index.html,
\* tags/{name}.html for each tag and tags/index.html when the tags index is
\* not empty, the tags files being left out for (and only for) a blog that
\* was generated with raw output.
C26_FilesWritten ==
    (wcount >= 1 /\ wret[1] = Nil) =>
        wfirst.files = Written(wblog, wblog \notin RawBundles)

\* C26, amended: the tags files are left out, and tags/ is not created, when
\* (and only when) the DirectoryWriter was built with WithRawOutput, however
\* the blog was generated.
C26_FilesWrittenByOption ==
    (wcount >= 1 /\ wret[1] = Nil) =>
        /\ wfirst.files = Written(wblog, ~wd.RawOutput)
        /\ DirPosts \in wfirst.dirs
        /\ DirTags \in wfirst.dirs <=> ~wd.RawOutput

\* a writer built with WithRawOutput has written a blog that has tag pages
C26_Witness ==
    /\ wcount >= 1
    /\ wret[1] = Nil
    /\ wd.RawOutput
    /\ DOMAIN wblog.Tags # {}
    /\ wblog.TagsIndex # NoBytes
    /\ DOMAIN wfirst.files = {<<DirPosts, k>> : k \in DOMAIN wblog.Posts}
                                 \cup {<<"", IndexName>>}

\* the handlers of the blogs Generate returns for the tree numbered f
HandlersOf(f) ==
    {Handler(res.blog, cfg.rootOpt) :
        res \in {x \in GenerateOn[gen, f] : x.err = ""}}

\* C27: once every UpdatePosts call that was made has returned, all of them
\* with nil, the handler in the cell is the one of the blog generated from
\* the tree last recorded in postsDir.
C27_LastUpdateWins ==
    (/\ \E u \in Updaters : upc[u] = "done"
     /\ \A u \in Updaters : upc[u] \in {"idle", "done"} /\ uret[u] = Nil)
        => Deref(handler) \in HandlersOf(postsDir)

\* C28: the step in which a failed UpdatePosts(p) returns leaves postsDir and
\* the generator's PostsDir equal to p and the handler cell as it was.
C28_FailedUpdateKeepsSource ==
    [][\A u \in Updaters :
          (upc[u] = "generating" /\ upc'[u] = "done" /\ uret'[u] # Nil)
          => /\ postsDir' = uarg[u]
             /\ genPostsDir' = uarg[u]
             /\ handler' = handler]_vars

\* the paths of the four named routes under the root prefix
IsNamedRoute(path) ==
    \/ path = RootPath \o <<SegPosts>>
    \/ path = RootPath \o <<SegTags>>
    \/ /\ Len(path) = Len(RootPath) + 2
       /\ SubSeq(path, 1, Len(RootPath) + 1) \in
              {RootPath \o <<SegPosts>>, RootPath \o <<SegTags>>}
       /\ path[Len(path)] # Slash

UnderRoot(path) ==
    /\ Len(path) >= Len(RootPath)
    /\ SubSeq(path, 1, Len(RootPath)) = RootPath

\* C29: a GET under the root prefix whose path is none of R/posts,
\* R/posts/{x}, R/tags and R/tags/{x} is answered with status 200 and the
\* landing page of the bundle.
C29_UnmatchedServesIndex ==
    \A c \in Clients :
        ( /\ rpc[c] = "done"
          /\ rseen[c].cell # 0
          /\ UnderRoot(rpath[c])
          /\ ~IsNamedRoute(rpath[c]) )
        => rresp[c] = [status |-> 200, body |-> Deref(rseen[c].cell).blog.Index]

\* R/posts/a/b answered with the landing page by a bundle that has post a
C29_Witness ==
    \E c \in Clients :
        /\ rpc[c] = "done"
        /\ rseen[c].cell # 0
        /\ rpath[c] = RootPath \o <<SegPosts, ChA, ChU>>
        /\ ChA \in DOMAIN Deref(rseen[c].cell).blog.Posts
        /\ rresp[c] = [status |-> 200, body |-> Deref(rseen[c].cell).blog.Index]
        /\ rresp[c].body # Deref(rseen[c].cell).blog.Posts[ChA]

====
